---- MODULE Spec2Model ----
(***************************************************************************)
(* A model of compute_cases.py: the diagnostic calculator calc, the regime *)
(* classifier classifyCRS and the pipeline main (read_csv, calc, classify, *)
(* to_csv, print).                                                         *)
(*                                                                         *)
(* Numbers are IEEE-754 binary floating point, scaled down: a finite value *)
(* is an integer number n of units of 2^-FracBits (the smallest subnormal) *)
(* whose magnitude is m * 2^j with m < 2^Precision and j <= ExpSteps; the  *)
(* operations round to nearest, ties to even, overflow to infinity and     *)
(* underflow to zero, and NaN and the infinities follow IEEE-754.  Zero is *)
(* unsigned: every division by zero in the program divides by a sqrt or an *)
(* abs, which is +0.                                                       *)
(***************************************************************************)
EXTENDS Integers, Sequences, FiniteSets, TLC

VARIABLES
    \* one row through calc and classifyCRS
    delta, V, dop, R, sin2phi, DeltaMix, crs, fpc,
    \* the pipeline main
    inFile, outFile, df, pc, err, stdout, out0, prevOut, run

rowVars == <<delta, V, dop, R, sin2phi, DeltaMix, crs, fpc>>
mainVars == <<inFile, outFile, df, pc, err, stdout, out0, prevOut, run>>
vars == <<delta, V, dop, R, sin2phi, DeltaMix, crs, fpc,
          inFile, outFile, df, pc, err, stdout, out0, prevOut, run>>

----------------------------------------------------------------------------
(* The floating-point format. *)

Precision == 2
FracBits == 4
ExpSteps == 5

Unit == 2^FracBits
Overflow == 2^(Precision + ExpSteps)
Huge == 2 * Overflow

Fin(n) == [k |-> "fin", n |-> n]
Inf(s) == [k |-> "inf", n |-> s]
NaN == [k |-> "nan", n |-> 0]

IsNaN(x) == x.k = "nan"
IsFinite(x) == x.k = "fin"

Sign(i) == IF i < 0 THEN -1 ELSE 1
Abs(i) == IF i < 0 THEN -i ELSE i

\* the exponent step of a magnitude of q units, q < Overflow
StepOf(q) ==
    LET j == CHOOSE i \in 0..ExpSteps :
                 /\ q < 2^(Precision + i)
                 /\ (i = 0 \/ q >= 2^(Precision + i - 1))
    IN  2^j

\* a / den units (a >= 0, den > 0, exact) rounded to nearest, ties to even
RoundPos(a, den) ==
    IF a \div den >= Overflow THEN Overflow
    ELSE LET step == StepOf(a \div den)
             m == a \div (den * step)
             rem == a - m * den * step
             up == IF 2 * rem > den * step THEN m + 1
                   ELSE IF 2 * rem = den * step THEN m + (m % 2)
                   ELSE m
         IN  up * step

\* num / den units (den > 0, exact) as a floating-point number
Round(num, den) ==
    LET r == RoundPos(Abs(num), den)
    IN  IF r >= Overflow THEN Inf(Sign(num)) ELSE Fin(Sign(num) * r)

\* every finite value of the format, and every value
FiniteFloats ==
    {Fin(s * m * 2^j) : s \in {-1, 1}, m \in 0..(2^Precision - 1), j \in 0..ExpSteps}
Floats == FiniteFloats \cup {Inf(1), Inf(-1), NaN}

\* an int literal of the code: Python compares and converts it exactly
IntLit(i) == Fin(i * Unit)

\* the order of two non-NaN values
Ord(x) == IF x.k = "inf" THEN x.n * Huge ELSE x.n

FNeg(x) == IF IsNaN(x) THEN NaN ELSE [x EXCEPT !.n = -x.n]

FAbs(x) == IF IsNaN(x) THEN NaN ELSE [x EXCEPT !.n = Abs(x.n)]

FAdd(x, y) ==
    IF IsNaN(x) \/ IsNaN(y) THEN NaN
    ELSE IF x.k = "inf" /\ y.k = "inf" THEN (IF x.n = y.n THEN x ELSE NaN)
    ELSE IF x.k = "inf" THEN x
    ELSE IF y.k = "inf" THEN y
    ELSE Round(x.n + y.n, 1)

FSub(x, y) == FAdd(x, FNeg(y))

FMul(x, y) ==
    IF IsNaN(x) \/ IsNaN(y) THEN NaN
    ELSE IF x.k = "inf" \/ y.k = "inf"
         THEN (IF x.n = 0 \/ y.n = 0 THEN NaN ELSE Inf(Sign(x.n) * Sign(y.n)))
    ELSE Round(x.n * y.n, Unit)

FDiv(x, y) ==
    IF IsNaN(x) \/ IsNaN(y) THEN NaN
    ELSE IF x.k = "inf" THEN (IF y.k = "inf" THEN NaN ELSE Inf(Sign(x.n) * Sign(y.n)))
    ELSE IF y.k = "inf" THEN Fin(0)
    ELSE IF y.n = 0 THEN (IF x.n = 0 THEN NaN ELSE Inf(Sign(x.n)))
    ELSE Round(Sign(y.n) * x.n * Unit, Abs(y.n))

\* the largest integer whose square is at most i
ISqrt(i) == CHOOSE s \in 0..Overflow : s * s <= i /\ (s + 1) * (s + 1) > i

FSqrt(x) ==
    IF IsNaN(x) THEN NaN
    ELSE IF x.k = "inf" THEN (IF x.n > 0 THEN x ELSE NaN)
    ELSE IF x.n < 0 THEN NaN
    ELSE LET sq == x.n * Unit
             step == StepOf(ISqrt(sq))
             m == ISqrt(sq) \div step
             mid == (2 * m + 1) * step
             up == IF 4 * sq > mid * mid THEN m + 1
                   ELSE IF 4 * sq = mid * mid THEN m + (m % 2)
                   ELSE m
         IN  IF up * step >= Overflow THEN Inf(1) ELSE Fin(up * step)

\* x >= y: false when either is NaN
FGe(x, y) == ~IsNaN(x) /\ ~IsNaN(y) /\ Ord(x) >= Ord(y)

FLt(x, y) == ~IsNaN(x) /\ ~IsNaN(y) /\ Ord(x) < Ord(y)

----------------------------------------------------------------------------
(* Decimal text: the literals of the code and the cells of a CSV file.  A  *)
(* decimal is m * 10^-e, written with e fractional digits.                 *)

Dec(m, e) == [t |-> "dec", m |-> m, e |-> e]
InfText(sg) == [t |-> "inf", m |-> sg]
Str(s) == [t |-> "str", s |-> s]

\* a decimal literal as the nearest floating-point number
ParseDec(m, e) == Round(m * Unit, 10^e)

Lit05 == ParseDec(5, 1)
Lit02 == ParseDec(2, 1)
Lit01 == ParseDec(1, 1)

----------------------------------------------------------------------------
(* calc and classifyCRS *)

\* calc with the factor 0.5 of sin2phi dropped
calc_nohalf(d, v) ==
    LET denom == FSqrt(FAdd(FMul(d, d), FMul(IntLit(4), FMul(v, v))))
    IN  [R |-> FDiv(FAbs(d), FAbs(v)),
         sin2phi |-> FSub(IntLit(1), FDiv(d, denom)),
         DeltaMix |-> denom]

\* calc with the division guarded: R is 0 where V is 0
calc_guarded(d, v) ==
    LET denom == FSqrt(FAdd(FMul(d, d), FMul(IntLit(4), FMul(v, v))))
    IN  [R |-> IF IsFinite(v) /\ v.n = 0 THEN Fin(0) ELSE FDiv(FAbs(d), FAbs(v)),
         sin2phi |-> FMul(Lit05, FSub(IntLit(1), FDiv(d, denom))),
         DeltaMix |-> denom]

calc(d, v) ==
    LET denom == FSqrt(FAdd(FMul(d, d), FMul(IntLit(4), FMul(v, v))))
    IN  [R |-> FDiv(FAbs(d), FAbs(v)),
         sin2phi |-> FMul(Lit05, FSub(IntLit(1), FDiv(d, denom))),
         DeltaMix |-> denom]

\* classifyCRS with the table read bottom-to-top
classifyCRS_bottomup(d, r) ==
    IF FGe(d, Lit01) /\ FGe(r, IntLit(1)) THEN 2
    ELSE IF FGe(d, Lit02) /\ FGe(r, IntLit(2)) THEN 1
    ELSE IF FGe(d, Lit05) /\ FGe(r, IntLit(5)) THEN 0
    ELSE 3

\* classifyCRS with the results of the first two rows exchanged
classifyCRS_swapped(d, r) ==
    IF FGe(d, Lit05) /\ FGe(r, IntLit(5)) THEN 1
    ELSE IF FGe(d, Lit02) /\ FGe(r, IntLit(2)) THEN 0
    ELSE IF FGe(d, Lit01) /\ FGe(r, IntLit(1)) THEN 2
    ELSE 3

\* classifyCRS with each row written as "not below the threshold"
classifyCRS_notbelow(d, r) ==
    IF ~(FLt(d, Lit05) \/ FLt(r, IntLit(5))) THEN 0
    ELSE IF ~(FLt(d, Lit02) \/ FLt(r, IntLit(2))) THEN 1
    ELSE IF ~(FLt(d, Lit01) \/ FLt(r, IntLit(1))) THEN 2
    ELSE 3

classifyCRS(d, r) ==
    IF FGe(d, Lit05) /\ FGe(r, IntLit(5)) THEN 0
    ELSE IF FGe(d, Lit02) /\ FGe(r, IntLit(2)) THEN 1
    ELSE IF FGe(d, Lit01) /\ FGe(r, IntLit(1)) THEN 2
    ELSE 3

----------------------------------------------------------------------------
(* One row through the two pure functions; crs is -1 until classified. *)

Absent == [st |-> "absent"]
Malformed == [st |-> "malformed"]
NoFrame == [st |-> "none"]
NoError == [type |-> "none", arg |-> ""]

\* the pipeline is not running
MainIdle ==
    /\ inFile = Absent /\ outFile = Absent /\ df = NoFrame
    /\ pc = "idle" /\ err = NoError /\ stdout = <<>>
    /\ out0 = Absent /\ prevOut = Absent /\ run = 0

\* classifyCRS on every pair (dop, R)
InitClassify ==
    /\ dop \in Floats /\ R \in Floats
    /\ delta = NaN /\ V = NaN /\ sin2phi = NaN /\ DeltaMix = NaN
    /\ crs = -1 /\ fpc = "classify"
    /\ MainIdle

ApplyClassify ==
    /\ fpc = "classify"
    /\ crs' = classifyCRS(dop, R)
    /\ fpc' = "done"
    /\ UNCHANGED <<delta, V, dop, R, sin2phi, DeltaMix>>
    /\ UNCHANGED mainVars

NextClassify == ApplyClassify

SpecClassify == InitClassify /\ [][NextClassify]_vars

\* the operational gaps tried with every (delta, V): the specials and the
\* values from just below 0 to 1.0, which lie on every side of the thresholds
DopInputs == {x \in Floats : ~IsFinite(x) \/ (x.n >= -1 /\ x.n <= Unit)}

\* one row (delta_eV, V_eV, DeltaOp_eV) through calc, then classifyCRS
InitRow ==
    /\ delta \in Floats /\ V \in Floats /\ dop \in DopInputs
    /\ R = NaN /\ sin2phi = NaN /\ DeltaMix = NaN
    /\ crs = -1 /\ fpc = "calc"
    /\ MainIdle

ApplyCalc ==
    /\ fpc = "calc"
    /\ R' = calc(delta, V).R
    /\ sin2phi' = calc(delta, V).sin2phi
    /\ DeltaMix' = calc(delta, V).DeltaMix
    /\ fpc' = "classify"
    /\ UNCHANGED <<delta, V, dop, crs>>
    /\ UNCHANGED mainVars

NextRow == ApplyCalc \/ ApplyClassify

SpecRow == InitRow /\ [][NextRow]_vars

----------------------------------------------------------------------------
(* The decision table of the classifier, as the specification words it.    *)

Zero == Fin(0)
One == IntLit(1)

RowHolds(i, d, r) ==
    CASE i = 0 -> FGe(d, Lit05) /\ FGe(r, IntLit(5))
      [] i = 1 -> FGe(d, Lit02) /\ FGe(r, IntLit(2))
      [] i = 2 -> FGe(d, Lit01) /\ FGe(r, IntLit(1))

RowsHit(d, r) == {i \in 0..2 : RowHolds(i, d, r)}

Topmost(d, r) ==
    IF RowsHit(d, r) = {} THEN 3
    ELSE CHOOSE i \in RowsHit(d, r) : \A j \in RowsHit(d, r) : i <= j

\* C1: classifyCRS returns the category of the topmost row of the decision
\* table that (dop, R) satisfies, and 3 when it satisfies none; the result
\* is one of 0, 1, 2, 3.
C1_FirstMatchWins ==
    fpc = "done" => crs \in 0..3 /\ crs = Topmost(dop, R)

\* a pair that satisfies all three rows and is classified 0
C1_Witness ==
    fpc = "done" /\ RowsHit(dop, R) = {0, 1, 2} /\ crs = 0

\* C2: raising dop and R together never gives a higher category:
\* classifyCRS(dop2, R2) <= classifyCRS(dop, R) whenever dop2 >= dop and R2 >= R.
C2_Monotonic ==
    fpc = "done" =>
        \A d2 \in Floats, r2 \in Floats :
            FGe(d2, dop) /\ FGe(r2, R) => classifyCRS(d2, r2) <= crs

\* a pair of category 2 with a larger pair of category 0
C2_Witness ==
    /\ fpc = "done" /\ crs = 2
    /\ \E d2 \in Floats, r2 \in Floats :
           FGe(d2, dop) /\ FGe(r2, R) /\ d2 # dop /\ r2 # R /\ classifyCRS(d2, r2) = 0

\* C10: a NaN dop or a NaN R is classified 3, whatever the other argument.
C10_NaNFallsThrough ==
    fpc = "done" /\ (IsNaN(dop) \/ IsNaN(R)) => crs = 3

\* a NaN dop with an infinite R, classified 3
C10_Witness ==
    fpc = "done" /\ IsNaN(dop) /\ R = Inf(1) /\ crs = 3

----------------------------------------------------------------------------
(* The diagnostics of one row. *)

InUnitInterval(x) == FGe(x, Zero) /\ FGe(One, x)

\* C8 as claimed: for every finite (delta, V), sin2phi lies in [0,1], except
\* at delta = 0 and V = 0, where it is NaN.
C8_AsClaimed ==
    fpc # "calc" /\ IsFinite(delta) /\ IsFinite(V) =>
        IF delta = Zero /\ V = Zero THEN IsNaN(sin2phi) ELSE InUnitInterval(sin2phi)

\* C8, amended: for every row with a finite delta whose computed DeltaMix is
\* positive and at least |delta|, sin2phi lies in [0,1].
C8_UnitIntervalWhenDominated ==
    fpc # "calc" /\ IsFinite(delta) /\ FGe(DeltaMix, FAbs(delta)) /\ DeltaMix # Zero
        => InUnitInterval(sin2phi)

\* a row with nonzero delta and V, DeltaMix above |delta| and sin2phi strictly
\* inside the interval
C8_Witness ==
    /\ fpc # "calc" /\ IsFinite(delta) /\ delta # Zero /\ IsFinite(V) /\ V # Zero
    /\ FGe(DeltaMix, FAbs(delta)) /\ DeltaMix # FAbs(delta)
    /\ InUnitInterval(sin2phi) /\ sin2phi # Zero /\ sin2phi # One /\ sin2phi # Lit05

DopCategory(d) ==
    IF FGe(d, Lit05) THEN 0
    ELSE IF FGe(d, Lit02) THEN 1
    ELSE IF FGe(d, Lit01) THEN 2
    ELSE 3

\* C9 as claimed: every row with V = 0 gets an infinite R and category 0.
C9_AsClaimed ==
    fpc = "done" /\ V = Zero => R = Inf(1) /\ crs = 0

\* C9, amended: a row with V = 0 and a nonzero delta gets R = +infinity, which
\* meets every R threshold, so dop alone decides the category (0 only when
\* dop >= 0.5); with V = 0 and delta = 0 or NaN, R is NaN and the category 3.
C9_ZeroCoupling ==
    fpc = "done" /\ V = Zero =>
        IF IsNaN(delta) \/ delta = Zero
        THEN IsNaN(R) /\ crs = 3
        ELSE /\ R = Inf(1)
             /\ \A i \in {1, 2, 5} : FGe(R, IntLit(i))
             /\ crs = DopCategory(dop)

\* a row with V = 0, an infinite R and a dop below 0.1, classified 3
C9_Witness ==
    fpc = "done" /\ V = Zero /\ R = Inf(1) /\ FLt(dop, Lit01) /\ crs = 3

----------------------------------------------------------------------------
(* The CSV table and the DataFrame.  A file is absent, malformed, or a     *)
(* table [cols, rows] of text cells; a frame holds one sequence of values  *)
(* per column name, and cols is the order of the columns.                  *)

Required == <<"delta_eV", "V_eV", "DeltaOp_eV">>
Derived == <<"R", "sin2phi", "DeltaMix_eV", "CRS_auto">>
Confirmation == "Wrote data/cases_computed.csv"

Range(f) == {f[i] : i \in DOMAIN f}

\* the texts read_csv takes for a missing value
NAStrings == {"", "NA", "NaN", "nan", "NULL", "null", "N/A", "n/a", "#N/A"}

IsNA(tok) == tok.t = "str" /\ tok.s \in NAStrings
IsNumeric(tok) == tok.t \in {"dec", "inf"}

\* a cell of a numeric column
ParseCell(tok) ==
    IF tok.t = "dec" THEN ParseDec(tok.m, tok.e)
    ELSE IF tok.t = "inf" THEN Inf(tok.m)
    ELSE NaN

\* a cell of an object column: the text as it stands, NaN where missing
ObjectCell(tok) == IF IsNA(tok) THEN NaN ELSE [k |-> "str", n |-> 0, tok |-> tok]

\* a column is numeric when every cell is a number or missing
ParseColumn(toks) ==
    IF \A i \in DOMAIN toks : IsNumeric(toks[i]) \/ IsNA(toks[i])
    THEN [i \in DOMAIN toks |-> ParseCell(toks[i])]
    ELSE [i \in DOMAIN toks |-> ObjectCell(toks[i])]

Pos(cols, c) == CHOOSE j \in 1..Len(cols) : cols[j] = c

FileColumn(file, c) ==
    [i \in 1..Len(file.rows) |-> file.rows[i][Pos(file.cols, c)]]

\* Every numeric column is held as float64; pandas holds a column of integer
\* texts as int64, which carries the same values through the pipeline.
read_csv(file) ==
    [st |-> "frame", cols |-> file.cols, n |-> Len(file.rows),
     data |-> [c \in Range(file.cols) |-> ParseColumn(FileColumn(file, c))]]

\* df[name] = values: an existing column is overwritten where it stands, a
\* new one is appended
SetColumn(frame, name, values) ==
    [st |-> "frame",
     cols |-> IF name \in Range(frame.cols) THEN frame.cols
              ELSE Append(frame.cols, name),
     n |-> frame.n,
     data |-> [c \in DOMAIN frame.data \cup {name} |->
                  IF c = name THEN values ELSE frame.data[c]]]

\* the number of fractional digits that tells any two values apart
MaxDigits == CHOOSE e \in 1..(FracBits + 1) : 10^e > Unit /\ 10^(e - 1) <= Unit

\* the decimals with e fractional digits next to a units that read back as a
ReprCands(a, e) ==
    {m \in {(a * 10^e) \div Unit, (a * 10^e) \div Unit + 1} : ParseDec(m, e) = Fin(a)}

\* float formatting with one fixed fractional digit
Repr_onedigit(x) ==
    LET a == Abs(x.n)
        lo == (a * 10) \div Unit
        m == IF 2 * (a * 10 - lo * Unit) >= Unit THEN lo + 1 ELSE lo
    IN  Dec(Sign(x.n) * m, 1)

\* repr of a finite float: the shortest decimal, with at least one
\* fractional digit, that reads back as the same float
Repr(x) ==
    LET a == Abs(x.n)
        e == CHOOSE d \in 1..MaxDigits :
                 /\ ReprCands(a, d) # {}
                 /\ \A d2 \in 1..(d - 1) : ReprCands(a, d2) = {}
        m == CHOOSE c \in ReprCands(a, e) :
                 \A c2 \in ReprCands(a, e) :
                     Abs(c * Unit - a * 10^e) <= Abs(c2 * Unit - a * 10^e)
    IN  Dec(Sign(x.n) * m, e)

FormatCell(cell) ==
    IF cell.k = "fin" THEN Repr(cell)
    ELSE IF cell.k = "inf" THEN InfText(cell.n)
    ELSE IF cell.k = "nan" THEN Str("")
    ELSE IF cell.k = "int" THEN Dec(cell.n, 0)
    ELSE cell.tok

\* to_csv writing only the rows without a missing value
to_csv_dropna(frame) ==
    LET keep == {i \in 1..frame.n : \A c \in Range(frame.cols) : frame.data[c][i].k # "nan"}
        nth(j) == CHOOSE i \in keep : Cardinality({h \in keep : h < i}) = j - 1
    IN  [st |-> "table", cols |-> frame.cols,
         rows |-> [j \in 1..Cardinality(keep) |->
                     [h \in 1..Len(frame.cols) |->
                         FormatCell(frame.data[frame.cols[h]][nth(j)])]]]

\* to_csv(index=False): the header, then every row in order
to_csv(frame) ==
    [st |-> "table", cols |-> frame.cols,
     rows |-> [i \in 1..frame.n |->
                 [j \in 1..Len(frame.cols) |-> FormatCell(frame.data[frame.cols[j]][i])]]]

HasText(column) == \E i \in DOMAIN column : column[i].k = "str"

----------------------------------------------------------------------------
(* The input tables tried: every layout below filled with up to MaxRows of *)
(* the case rows, in every order.  "label" is a passthrough column of text *)
(* and "R" a passthrough column that carries the name of a derived one.    *)

MaxRows == 2

CaseRow(d, v, o, l, r) ==
    [delta_eV |-> d, V_eV |-> v, DeltaOp_eV |-> o, label |-> l, R |-> r]

CaseRows ==
    { CaseRow(Dec(0, 1), Dec(10, 1), Dec(6, 1), Str("H2"), Dec(7, 0)),
      CaseRow(Dec(6, 0), Dec(1, 0), Dec(5, 1), Str("NA"), Dec(7, 0)),
      CaseRow(Dec(3, 1), Dec(0, 0), Dec(2, 1), Str("LiF"), Dec(25, 2)),
      CaseRow(Dec(6, 2), Dec(5, 1), Dec(2, 1), Str("LiF"), Dec(7, 0)),
      CaseRow(Dec(0, 0), Dec(0, 0), Dec(1, 1), Str("H2"), Str("")),
      CaseRow(Str(""), Dec(-5, 1), InfText(1), Str("H2"), Dec(7, 0)),
      CaseRow(Dec(-15, 1), Dec(33, 2), Dec(19, 2), Str("LiF"), Dec(7, 0)),
      CaseRow(Str("n.d."), Dec(1, 0), Dec(6, 1), Str("H2"), Dec(7, 0)),
      CaseRow(Dec(3, 0), Dec(1, 0), Str("high"), Str("H2"), Dec(7, 0)) }

Layouts ==
    { <<"delta_eV", "V_eV", "DeltaOp_eV">>,
      <<"label", "delta_eV", "V_eV", "DeltaOp_eV">>,
      <<"DeltaOp_eV", "V_eV", "label", "delta_eV">>,
      <<"delta_eV", "R", "V_eV", "DeltaOp_eV">>,
      <<"V_eV", "DeltaOp_eV">>,
      <<"delta_eV", "label", "DeltaOp_eV">>,
      <<"delta_eV", "V_eV">>,
      <<"DeltaOp_eV", "R">>,
      <<"label">> }

RowSeqs == UNION {[1..n -> CaseRows] : n \in 0..MaxRows}

Table(cols, rs) ==
    [st |-> "table", cols |-> cols,
     rows |-> [i \in 1..Len(rs) |-> [j \in 1..Len(cols) |-> rs[i][cols[j]]]]]

InputFiles == {Absent, Malformed} \cup {Table(cols, rs) : cols \in Layouts, rs \in RowSeqs}

\* what an earlier, unrelated run left at the output location
Stale == [st |-> "table", cols |-> <<"old">>, rows |-> << <<Str("stale")>> >>]

----------------------------------------------------------------------------
(* main *)

Fail(type, arg) ==
    /\ pc' = "failed"
    /\ err' = [type |-> type, arg |-> arg]
    /\ UNCHANGED <<inFile, outFile, df, stdout, out0, prevOut, run>>

\* df = pd.read_csv("data/cases.csv")
ReadCsv ==
    /\ pc = "read"
    /\ \/ inFile.st = "absent" /\ Fail("FileNotFoundError", "data/cases.csv")
       \/ inFile.st = "malformed" /\ Fail("ParserError", "data/cases.csv")
       \/ /\ inFile.st = "table"
          /\ df' = read_csv(inFile)
          /\ pc' = "calc"
          /\ UNCHANGED <<inFile, outFile, err, stdout, out0, prevOut, run>>
    /\ UNCHANGED rowVars

\* R, sin2phi, DeltaMix = calc(df["delta_eV"].to_numpy(), df["V_eV"].to_numpy())
\* df["R"] = R; df["sin2phi"] = sin2phi; df["DeltaMix_eV"] = DeltaMix
ComputeDiagnostics ==
    /\ pc = "calc"
    /\ \/ "delta_eV" \notin Range(df.cols) /\ Fail("KeyError", "delta_eV")
       \/ /\ "delta_eV" \in Range(df.cols)
          /\ "V_eV" \notin Range(df.cols)
          /\ Fail("KeyError", "V_eV")
       \/ /\ "delta_eV" \in Range(df.cols) /\ "V_eV" \in Range(df.cols)
          /\ HasText(df.data["delta_eV"]) \/ HasText(df.data["V_eV"])
          /\ Fail("TypeError", "")
       \/ /\ "delta_eV" \in Range(df.cols) /\ "V_eV" \in Range(df.cols)
          /\ ~HasText(df.data["delta_eV"]) /\ ~HasText(df.data["V_eV"])
          /\ LET out == [i \in 1..df.n |->
                            calc(df.data["delta_eV"][i], df.data["V_eV"][i])]
                 withR == SetColumn(df, "R", [i \in 1..df.n |-> out[i].R])
                 withS == SetColumn(withR, "sin2phi", [i \in 1..df.n |-> out[i].sin2phi])
             IN  df' = SetColumn(withS, "DeltaMix_eV", [i \in 1..df.n |-> out[i].DeltaMix])
          /\ pc' = "classify"
          /\ UNCHANGED <<inFile, outFile, err, stdout, out0, prevOut, run>>
    /\ UNCHANGED rowVars

\* df["CRS_auto"] = [classifyCRS(d, r) for d, r in zip(df["DeltaOp_eV"], df["R"])]
Classify ==
    /\ pc = "classify"
    /\ \/ "DeltaOp_eV" \notin Range(df.cols) /\ Fail("KeyError", "DeltaOp_eV")
       \/ /\ "DeltaOp_eV" \in Range(df.cols)
          /\ HasText(df.data["DeltaOp_eV"])
          /\ Fail("TypeError", "")
       \/ /\ "DeltaOp_eV" \in Range(df.cols)
          /\ ~HasText(df.data["DeltaOp_eV"])
          /\ df' = SetColumn(df, "CRS_auto",
                     [i \in 1..df.n |->
                         [k |-> "int",
                          n |-> classifyCRS(df.data["DeltaOp_eV"][i], df.data["R"][i])]])
          /\ pc' = "write"
          /\ UNCHANGED <<inFile, outFile, err, stdout, out0, prevOut, run>>
    /\ UNCHANGED rowVars

\* df.to_csv("data/cases_computed.csv", index=False)
WriteCsv ==
    /\ pc = "write"
    /\ outFile' = to_csv(df)
    /\ pc' = "print"
    /\ UNCHANGED <<inFile, df, err, stdout, out0, prevOut, run>>
    /\ UNCHANGED rowVars

\* print("Wrote data/cases_computed.csv")
PrintConfirmation ==
    /\ pc = "print"
    /\ stdout' = Append(stdout, Confirmation)
    /\ pc' = "done"
    /\ UNCHANGED <<inFile, outFile, df, err, out0, prevOut, run>>
    /\ UNCHANGED rowVars

\* the table without the four derived columns
DropDerived(file) ==
    LET keep == {j \in 1..Len(file.cols) : file.cols[j] \notin Range(Derived)}
        nth(h) == CHOOSE j \in keep : Cardinality({g \in keep : g < j}) = h - 1
    IN  [st |-> "table",
         cols |-> [h \in 1..Cardinality(keep) |-> file.cols[nth(h)]],
         rows |-> [i \in 1..Len(file.rows) |->
                     [h \in 1..Cardinality(keep) |-> file.rows[i][nth(h)]]]]

\* the script is run again, on the original columns of its own output
Rerun ==
    /\ pc = "done" /\ run = 1
    /\ inFile' = DropDerived(outFile)
    /\ prevOut' = outFile
    /\ out0' = outFile
    /\ df' = NoFrame
    /\ stdout' = <<>>
    /\ pc' = "read"
    /\ run' = 2
    /\ UNCHANGED <<outFile, err>>
    /\ UNCHANGED rowVars

Init ==
    /\ inFile \in InputFiles
    /\ outFile \in {Absent, Stale}
    /\ out0 = outFile
    /\ prevOut = Absent
    /\ df = NoFrame /\ pc = "read" /\ err = NoError /\ stdout = <<>> /\ run = 1
    /\ delta = NaN /\ V = NaN /\ dop = NaN /\ R = NaN /\ sin2phi = NaN
    /\ DeltaMix = NaN /\ crs = -1 /\ fpc = "idle"

Next ==
    \/ ReadCsv
    \/ ComputeDiagnostics
    \/ Classify
    \/ WriteCsv
    \/ PrintConfirmation
    \/ Rerun

Spec == Init /\ [][Next]_vars

----------------------------------------------------------------------------
(* The pipeline's claims. *)

Terminated == pc \in {"done", "failed"}

MissingColumns == Range(Required) \ Range(inFile.cols)

Cell(file, i, c) == file.rows[i][Pos(file.cols, c)]

\* C3 as claimed: after a successful run the output has as many rows as the
\* input, in the same order, and every input column, whatever its name, is in
\* the output with the values the input holds.
C3_AsClaimed ==
    pc = "done" =>
        /\ Len(outFile.rows) = Len(inFile.rows)
        /\ \A c \in Range(inFile.cols) :
              /\ c \in Range(outFile.cols)
              /\ read_csv(outFile).data[c] = read_csv(inFile).data[c]

\* C4 as claimed: the output's columns are the input's columns in their
\* order, followed by R, sin2phi, DeltaMix_eV, CRS_auto.
C4_AsClaimed ==
    pc = "done" => outFile.cols = inFile.cols \o Derived

\* C5 as claimed: a run on a table that lacks a required column fails with a
\* SchemaError naming a missing column, writes nothing and prints nothing.
C5_AsClaimed ==
    Terminated /\ inFile.st = "table" /\ MissingColumns # {} =>
        /\ pc = "failed"
        /\ err.type = "SchemaError"
        /\ err.arg \in MissingColumns
        /\ outFile = out0
        /\ stdout = <<>>

\* the four derived cells of row i, from the input's text
ExpectedDerived(i) ==
    LET d == ParseCell(Cell(inFile, i, "delta_eV"))
        v == ParseCell(Cell(inFile, i, "V_eV"))
        o == ParseCell(Cell(inFile, i, "DeltaOp_eV"))
    IN  [R |-> FormatCell(calc(d, v).R),
         sin2phi |-> FormatCell(calc(d, v).sin2phi),
         DeltaMix_eV |-> FormatCell(calc(d, v).DeltaMix),
         CRS_auto |-> Dec(classifyCRS(o, calc(d, v).R), 0)]

\* the output holds the whole augmented table: every input row, each with
\* its four derived values
Complete(file) ==
    /\ file.st = "table"
    /\ inFile.st = "table"
    /\ MissingColumns = {}
    /\ Len(file.rows) = Len(inFile.rows)
    /\ Range(Derived) \subseteq Range(file.cols)
    /\ \A i \in 1..Len(file.rows) :
          /\ Len(file.rows[i]) = Len(file.cols)
          /\ \A c \in Range(Derived) : Cell(file, i, c) = ExpectedDerived(i)[c]

\* C6: a run is all-or-nothing.  A finished run has written the complete
\* augmented table and then printed the confirmation; a failed run has left
\* the output location as it was and printed nothing; the output location
\* never holds anything between the two, and the confirmation is never
\* printed before the write.
C6_AllOrNothing ==
    /\ pc = "done" => Complete(outFile) /\ stdout = <<Confirmation>> /\ err = NoError
    /\ pc = "failed" =>
          /\ outFile = out0 /\ stdout = <<>>
          /\ err.type \in {"FileNotFoundError", "ParserError", "KeyError", "TypeError"}
    /\ outFile # out0 => Complete(outFile)
    /\ stdout # <<>> => Complete(outFile) /\ pc = "done"

\* a finished run that replaced a stale output by a two-row table holding a
\* missing value
C6_Witness ==
    /\ pc = "done" /\ run = 1 /\ out0 = Stale /\ outFile # Stale
    /\ Len(outFile.rows) = 2 /\ stdout = <<Confirmation>>
    /\ Cell(outFile, 2, "sin2phi") = Str("")

====
